---- MODULE Spec2Model ----
(***************************************************************************)
(* Model of app.py: the "listen" and "convert" modes of the speech-to-text *)
(* command line tool.  The Whisper model and the microphone library are    *)
(* external; the model keeps the control flow of app.py, the file system   *)
(* objects it touches (output text file, temporary WAV files, input audio  *)
(* file), the microphone context manager and the process exit status.      *)
(***************************************************************************)
EXTENDS Integers, Sequences, FiniteSets, TLC

\* ------------------------------------------------------------------ bounds
MaxSegs == 2        \* segments captured, all listen sessions together
MaxRuns == 2        \* invocations of the program on the same file system
MaxTextLen == 1     \* characters in one transcription

\* ------------------------------------------------------------- basic data
NL == "\n"
Chars == {"a", NL}
Segments == {"s1", "s2"}

RECURSIVE SeqsUpTo(_)
SeqsUpTo(n) ==
    IF n = 0 THEN {<<>>}
    ELSE LET S == SeqsUpTo(n - 1)
         IN  S \cup {Append(s, c) : s \in {t \in S : Len(t) = n - 1},
                                       c \in Chars}

Texts == SeqsUpTo(MaxTextLen)

\* a file: absent, or present with its content
Absent == [exists |-> FALSE, data |-> <<>>]
File(d) == [exists |-> TRUE, data |-> d]

\* audio.get_wav_data(): the captured frames behind a WAV header
GetWavData(a) == <<"RIFF", a>>
AudioFiles == {GetWavData(a) : a \in Segments}

\* result of model.transcribe on one audio content: a text, or an exception
Results == [ok : {TRUE}, text : Texts] \cup {[ok |-> FALSE, text |-> <<>>]}

Prefixes(d) == {SubSeq(d, 1, k) : k \in 0..(Len(d) - 1)}

\* ------------------------------------------------------------------ state
VARIABLES
    engine,        \* the loaded model as a function of the audio content:
                   \* the part of it that calls have shown so far
    inputFile,     \* convert: the file at input_audio_file
    outFile,       \* the file at output_text_file
    tempDir,       \* temporary directory: name -> content
    mode, pc,      \* running process: subcommand and position
    deviceHeld,    \* the microphone is open
    acquires,      \* times the microphone was opened in this run
    audio,         \* listen_mode: local `audio`
    tempName,      \* listen_mode: local `temp_audio_file` (0: unset)
    transcription, \* local `transcription`
    fileOpen,      \* the output file is open in this process
    segs,          \* segments captured in this run, in capture order
    completed,     \* iterations of the loop body that ran to their end
    calls,         \* calls of model.transcribe in this run
    myTemps,       \* names of the temporary files created in this run
    base,          \* output file when this run started
    raisedAt, exc, \* where the last exception was raised, and which
    exitCode,      \* exit status of the finished run (-1: none)
    runs,          \* invocations so far
    captured,      \* segments captured so far, in all runs
    prevConvert    \* output file left by the last successful convert run
                   \* among the earlier runs

vars == <<engine, inputFile, outFile, tempDir, mode, pc, deviceHeld, acquires,
          audio, tempName, transcription, fileOpen, segs, completed, calls,
          myTemps, base, raisedAt, exc, exitCode, runs, captured,
          prevConvert>>

world == <<engine, inputFile>>   \* what no step but a transcription touches
locals == <<audio, tempName, transcription>>

\* ------------------------------------------------------- language pieces
\* positions inside `try:` (lines 49-64)
TryPcs == {"loop", "capturing", "mktemp", "write", "transcribe", "open",
           "append", "remove"}
\* positions inside `with sr.Microphone() as source:` (lines 46-66)
WithPcs == TryPcs \cup {"start", "handler"}
ListenPcs == WithPcs \cup {"mic"}
ConvertPcs == {"cv_transcribe", "cv_open", "cv_write"}
RunningPcs == {"load"} \cup ListenPcs \cup ConvertPcs

InTry(p) == p \in TryPcs

\* `except KeyboardInterrupt:` (line 65); before it, what a bare `except:`
\* and what no handler at all would do
CatchesAny(e) == TRUE
CatchesNone(e) == FALSE
Catches(e) == e = "KeyboardInterrupt"

\* Microphone.__exit__ at the end of the with block, reached normally
\* (e = "none") or by an exception leaving the block: is the device still
\* held?  Before it, a close written after the loop instead of a with block.
HeldOnError(e) == e # "none"
DeviceAfterExit(e) == FALSE

\* exit status of the interpreter: 0 on return from main, 1 on an uncaught
\* exception; an uncaught KeyboardInterrupt gives 1 or 130 (128 + SIGINT)
ExitStatuses(e) ==
    IF e = "none" THEN {0}
    ELSE IF e = "KeyboardInterrupt" THEN {1, 130}
    ELSE {1}

\* open(path, "w"): create or truncate; before it, a mode that keeps the
\* content
OpenWKeeps(f) == IF f.exists THEN f ELSE File(<<>>)
OpenW(f) == File(<<>>)
\* open(path, "a"): create if absent, keep the content
OpenA(f) == IF f.exists THEN f ELSE File(<<>>)
\* f.write(s) followed by the close at the end of the with block
Write(f, s) == File(f.data \o s)

\* transcription + "\n" (line 61); before it, the text alone
LineOfNoNewline(t) == t
LineOf(t) == t \o <<NL>>

\* os.remove(name); before it, a removal that is left out
OsRemoveNothing(dir, n) == dir
OsRemove(dir, n) == [m \in (DOMAIN dir) \ {n} |-> dir[m]]

\* transcribe_audio(model, audio_file) on a file of the file system: the
\* results the call can have.  A missing file raises; the model is a function
\* of the audio content, so a content seen before gives what it gave before,
\* and a new content gives any text or an exception.
TranscribeAudio(f) ==
    IF ~f.exists THEN {[ok |-> FALSE, text |-> <<>>]}
    ELSE IF f.data \in DOMAIN engine THEN {engine[f.data]}
    ELSE Results

\* the model after it has answered r for the file f
Answered(f, r) ==
    IF f.exists /\ f.data \notin DOMAIN engine THEN (f.data :> r) @@ engine
    ELSE engine

\* the name tempfile gives a new file: one not in use.  Names are
\* interchangeable, the least unused number stands for any of them.
FreshName(dir) ==
    CHOOSE n \in 1..(Cardinality(DOMAIN dir) + 1) :
        /\ n \notin DOMAIN dir
        /\ \A m \in 1..(n - 1) : m \in DOMAIN dir

\* an exception e raised at the current position: caught by the handler of
\* listen_mode, or propagated out of main
Raise(e) ==
    /\ raisedAt' = pc
    /\ exc' = e
    /\ IF InTry(pc) /\ Catches(e)
       THEN /\ pc' = "handler"
            /\ UNCHANGED <<deviceHeld, exitCode>>
       ELSE /\ pc' = "done"
            /\ deviceHeld' = IF pc \in WithPcs THEN DeviceAfterExit(e)
                             ELSE deviceHeld
            /\ exitCode' \in ExitStatuses(e)

\* ------------------------------------------------------------------- Init
Init ==
    /\ engine = <<>>
    /\ inputFile \in {Absent} \cup {File(d) : d \in AudioFiles}
    /\ outFile = Absent
    /\ tempDir = <<>>
    /\ mode = "none" /\ pc = "idle"
    /\ deviceHeld = FALSE /\ acquires = 0
    /\ audio = "none" /\ tempName = 0 /\ transcription = <<>>
    /\ fileOpen = FALSE
    /\ segs = <<>> /\ completed = 0 /\ calls = 0
    /\ myTemps = {}
    /\ base = Absent
    /\ raisedAt = "none" /\ exc = "none"
    /\ exitCode = -1
    /\ runs = 0
    /\ captured = 0
    /\ prevConvert = Absent

\* ------------------------------------------------------------------- main
\* a new process is started with one of the two subcommands
Invoke(m) ==
    /\ pc \in {"idle", "done"}
    /\ runs < MaxRuns
    /\ runs' = runs + 1
    /\ mode' = m /\ pc' = "load"
    /\ base' = outFile
    /\ acquires' = 0
    /\ audio' = "none" /\ tempName' = 0 /\ transcription' = <<>>
    /\ segs' = <<>> /\ completed' = 0 /\ calls' = 0
    /\ myTemps' = {}
    /\ raisedAt' = "none" /\ exc' = "none"
    /\ exitCode' = -1
    /\ prevConvert' = IF mode = "convert" /\ exitCode = 0 THEN outFile
                      ELSE prevConvert
    /\ UNCHANGED <<world, outFile, tempDir, deviceHeld, fileOpen, captured>>

\* model = load_model(), then the dispatch on args.mode
LoadModel ==
    /\ pc = "load"
    /\ pc' = IF mode = "listen" THEN "mic" ELSE "cv_transcribe"
    /\ UNCHANGED <<world, outFile, tempDir, mode, deviceHeld, acquires,
                   locals, fileOpen, segs, completed, calls, myTemps, base,
                   raisedAt, exc, exitCode, runs, captured, prevConvert>>

\* ------------------------------------------------------------ listen_mode
\* with sr.Microphone() as source:
MicrophoneEnter ==
    /\ pc = "mic"
    /\ pc' = "start"
    /\ deviceHeld' = TRUE
    /\ acquires' = acquires + 1
    /\ UNCHANGED <<world, outFile, tempDir, mode, locals, fileOpen, segs,
                   completed, calls, myTemps, base, raisedAt, exc, exitCode,
                   runs, captured, prevConvert>>

\* the two prints, then `try:`
EnterTry ==
    /\ pc = "start"
    /\ pc' = "loop"
    /\ UNCHANGED <<world, outFile, tempDir, mode, deviceHeld, acquires,
                   locals, fileOpen, segs, completed, calls, myTemps, base,
                   raisedAt, exc, exitCode, runs, captured, prevConvert>>

\* while True: the call of record_audio_chunk starts
BeginCapture ==
    /\ pc = "loop"
    /\ captured < MaxSegs
    /\ pc' = "capturing"
    /\ UNCHANGED <<world, outFile, tempDir, mode, deviceHeld, acquires,
                   locals, fileOpen, segs, completed, calls, myTemps, base,
                   raisedAt, exc, exitCode, runs, captured, prevConvert>>

\* audio = record_audio_chunk(recognizer, source)
RecordAudioChunk ==
    /\ pc = "capturing"
    /\ \E a \in Segments :
          /\ audio' = a
          /\ segs' = Append(segs, a)
    /\ captured' = captured + 1
    /\ pc' = "mktemp"
    /\ UNCHANGED <<world, outFile, tempDir, mode, deviceHeld, acquires,
                   tempName, transcription, fileOpen, completed, calls,
                   myTemps, base, raisedAt, exc, exitCode, runs, prevConvert>>

\* tempfile.NamedTemporaryFile(suffix=".wav", delete=False): a new file
\* under a name not in use
NamedTemporaryFile ==
    /\ pc = "mktemp"
    /\ LET n == FreshName(tempDir)
       IN  /\ tempDir' = (n :> <<>>) @@ tempDir
           /\ tempName' = n
           /\ myTemps' = myTemps \cup {n}
    /\ pc' = "write"
    /\ UNCHANGED <<world, outFile, mode, deviceHeld, acquires, audio,
                   transcription, fileOpen, segs, completed, calls, base,
                   raisedAt, exc, exitCode, runs, captured, prevConvert>>

\* temp_audio.write(audio.get_wav_data()); the with block closes the file
WriteTemp ==
    /\ pc = "write"
    /\ tempDir' = [tempDir EXCEPT ![tempName] = GetWavData(audio)]
    /\ pc' = "transcribe"
    /\ UNCHANGED <<world, outFile, mode, deviceHeld, acquires, locals,
                   fileOpen, segs, completed, calls, myTemps, base, raisedAt,
                   exc, exitCode, runs, captured, prevConvert>>

\* the write fails part way; the file stays (delete=False)
WriteTempFails ==
    /\ pc = "write"
    /\ \E d \in Prefixes(GetWavData(audio)) :
          tempDir' = [tempDir EXCEPT ![tempName] = d]
    /\ Raise("Error")
    /\ UNCHANGED <<world, outFile, mode, acquires, locals, fileOpen, segs,
                   completed, calls, myTemps, base, runs, captured,
                   prevConvert>>

\* transcription = transcribe_audio(model, temp_audio_file)
Transcribe ==
    /\ pc = "transcribe"
    /\ calls' = calls + 1
    /\ \E r \in TranscribeAudio(File(tempDir[tempName])) :
          /\ engine' = Answered(File(tempDir[tempName]), r)
          /\ IF r.ok
             THEN /\ transcription' = r.text
                  /\ pc' = "open"
                  /\ UNCHANGED <<deviceHeld, raisedAt, exc, exitCode>>
             ELSE /\ Raise("Error")
                  /\ UNCHANGED transcription
    /\ UNCHANGED <<inputFile, outFile, tempDir, mode, acquires, audio,
                   tempName, fileOpen, segs, completed, myTemps, base, runs,
                   captured, prevConvert>>

\* with open(output_text_file, "a", encoding="utf-8") as f:
OpenAppend ==
    /\ pc = "open"
    /\ outFile' = OpenA(outFile)
    /\ fileOpen' = TRUE
    /\ pc' = "append"
    /\ UNCHANGED <<world, tempDir, mode, deviceHeld, acquires, locals, segs,
                   completed, calls, myTemps, base, raisedAt, exc, exitCode,
                   runs, captured, prevConvert>>

\* f.write(transcription + "\n"), closed by the with block
AppendLine ==
    /\ pc = "append"
    /\ outFile' = Write(outFile, LineOf(transcription))
    /\ fileOpen' = FALSE
    /\ pc' = "remove"
    /\ UNCHANGED <<world, tempDir, mode, deviceHeld, acquires, locals, segs,
                   completed, calls, myTemps, base, raisedAt, exc, exitCode,
                   runs, captured, prevConvert>>

\* the write fails part way (for instance a full disk)
AppendLineFails ==
    /\ pc = "append"
    /\ \E d \in Prefixes(LineOf(transcription)) :
          outFile' = File(outFile.data \o d)
    /\ fileOpen' = FALSE
    /\ Raise("Error")
    /\ UNCHANGED <<world, tempDir, mode, acquires, locals, segs, completed,
                   calls, myTemps, base, runs, captured, prevConvert>>

\* print(...); os.remove(temp_audio_file); back to `while True`
RemoveTemp ==
    /\ pc = "remove"
    /\ tempDir' = OsRemove(tempDir, tempName)
    /\ completed' = completed + 1
    /\ pc' = "loop"
    /\ UNCHANGED <<world, outFile, mode, deviceHeld, acquires, locals,
                   fileOpen, segs, calls, myTemps, base, raisedAt, exc,
                   exitCode, runs, captured, prevConvert>>

\* except KeyboardInterrupt: print(...); the with block ends, listen_mode
\* and main return
HandlerReturns ==
    /\ pc = "handler"
    /\ pc' = "done"
    /\ deviceHeld' = DeviceAfterExit("none")
    /\ exitCode' \in ExitStatuses("none")
    /\ UNCHANGED <<world, outFile, tempDir, mode, acquires, locals, fileOpen,
                   segs, completed, calls, myTemps, base, raisedAt, exc, runs,
                   captured, prevConvert>>

\* ----------------------------------------------------------- convert_mode
\* transcription = transcribe_audio(model, input_audio_file); before it, a
\* convert_mode that opens the output file first
ConvertTranscribeOpensFirst ==
    /\ pc = "cv_transcribe"
    /\ calls' = calls + 1
    /\ \E r \in TranscribeAudio(inputFile) :
          /\ engine' = Answered(inputFile, r)
          /\ IF r.ok
             THEN /\ transcription' = r.text
                  /\ pc' = "cv_open"
                  /\ UNCHANGED <<outFile, deviceHeld, raisedAt, exc,
                                 exitCode>>
             ELSE /\ Raise("Error")
                  /\ outFile' = OpenW(outFile)
                  /\ UNCHANGED transcription
    /\ UNCHANGED <<inputFile, tempDir, mode, acquires, audio, tempName,
                   fileOpen, segs, completed, myTemps, base, runs, captured,
                   prevConvert>>

ConvertTranscribe ==
    /\ pc = "cv_transcribe"
    /\ calls' = calls + 1
    /\ \E r \in TranscribeAudio(inputFile) :
          /\ engine' = Answered(inputFile, r)
          /\ IF r.ok
             THEN /\ transcription' = r.text
                  /\ pc' = "cv_open"
                  /\ UNCHANGED <<deviceHeld, raisedAt, exc, exitCode>>
             ELSE /\ Raise("Error")
                  /\ UNCHANGED transcription
    /\ UNCHANGED <<inputFile, outFile, tempDir, mode, acquires, audio,
                   tempName, fileOpen, segs, completed, myTemps, base, runs,
                   captured, prevConvert>>

\* with open(output_text_file, "w", encoding="utf-8") as f:
ConvertOpen ==
    /\ pc = "cv_open"
    /\ outFile' = OpenW(outFile)
    /\ fileOpen' = TRUE
    /\ pc' = "cv_write"
    /\ UNCHANGED <<world, tempDir, mode, deviceHeld, acquires, locals, segs,
                   completed, calls, myTemps, base, raisedAt, exc, exitCode,
                   runs, captured, prevConvert>>

\* f.write(transcription); close; print; convert_mode and main return
ConvertWrite ==
    /\ pc = "cv_write"
    /\ outFile' = Write(outFile, transcription)
    /\ fileOpen' = FALSE
    /\ pc' = "done"
    /\ exitCode' \in ExitStatuses("none")
    /\ UNCHANGED <<world, tempDir, mode, deviceHeld, acquires, locals, segs,
                   completed, calls, myTemps, base, raisedAt, exc, runs,
                   captured, prevConvert>>

\* the write fails part way
ConvertWriteFails ==
    /\ pc = "cv_write"
    /\ transcription # <<>>
    /\ \E d \in Prefixes(transcription) :
          outFile' = File(outFile.data \o d)
    /\ fileOpen' = FALSE
    /\ Raise("Error")
    /\ UNCHANGED <<world, tempDir, mode, acquires, locals, segs, completed,
                   calls, myTemps, base, runs, captured, prevConvert>>

\* ------------------------------------------------------------- exceptions
\* a step that changes nothing before it raises: the model cannot be loaded,
\* no microphone, the capture fails, no temporary file can be created, the
\* output file cannot be opened, the temporary file cannot be removed
FalliblePcs == {"load", "mic", "capturing", "mktemp", "open", "remove",
                "cv_open"}

StepFails ==
    /\ pc \in FalliblePcs
    /\ Raise("Error")
    /\ UNCHANGED <<world, outFile, tempDir, mode, acquires, locals, fileOpen,
                   segs, completed, calls, myTemps, base, runs, captured,
                   prevConvert>>

\* SIGINT: KeyboardInterrupt is raised in the main thread wherever it is;
\* an open file is closed by its with block.  (What an interrupt inside
\* Microphone.__enter__ leaves of the device is the library's business and
\* is not modelled.)
Interrupt ==
    /\ pc \in RunningPcs \ {"mic"}
    /\ fileOpen' = FALSE
    /\ Raise("KeyboardInterrupt")
    /\ UNCHANGED <<world, outFile, tempDir, mode, acquires, locals, segs,
                   completed, calls, myTemps, base, runs, captured,
                   prevConvert>>

\* ------------------------------------------------------------------- Next
Next ==
    \/ \E m \in {"listen", "convert"} : Invoke(m)
    \/ LoadModel
    \/ MicrophoneEnter
    \/ EnterTry
    \/ BeginCapture
    \/ RecordAudioChunk
    \/ NamedTemporaryFile
    \/ WriteTemp
    \/ WriteTempFails
    \/ Transcribe
    \/ OpenAppend
    \/ AppendLine
    \/ AppendLineFails
    \/ RemoveTemp
    \/ HandlerReturns
    \/ ConvertTranscribe
    \/ ConvertOpen
    \/ ConvertWrite
    \/ ConvertWriteFails
    \/ StepFails
    \/ Interrupt

Spec == Init /\ [][Next]_vars

\* ------------------------------------------------------------ properties
RECURSIVE Flatten(_)
\* the characters of a sequence of newline-terminated lines
Flatten(ls) ==
    IF ls = <<>> THEN <<>> ELSE Head(ls) \o <<NL>> \o Flatten(Tail(ls))

RECURSIVE SplitFrom(_, _)
\* the lines of a text: every newline ends a line; characters after the last
\* newline form a last line
SplitFrom(d, cur) ==
    IF d = <<>> THEN (IF cur = <<>> THEN <<>> ELSE <<cur>>)
    ELSE IF Head(d) = NL THEN <<cur>> \o SplitFrom(Tail(d), <<>>)
    ELSE SplitFrom(Tail(d), Append(cur, Head(d)))

SplitLines(d) == SplitFrom(d, <<>>)

HasNewline(t) == \E i \in 1..Len(t) : t[i] = NL

\* the engine's text for a captured segment
TextOf(a) == engine[GetWavData(a)].text
\* the engine's texts for the first n captured segments, in capture order
ExpectedLines(n) == [i \in 1..n |-> TextOf(segs[i])]

StartsWith(d, p) == Len(p) <= Len(d) /\ SubSeq(d, 1, Len(p)) = p
\* what the run has added to the output file
Appended == SubSeq(outFile.data, Len(base.data) + 1, Len(outFile.data))

\* the output file once the first n captured segments have been appended
OutAfter(n) ==
    IF n = 0 THEN base ELSE File(base.data \o Flatten(ExpectedLines(n)))

LiveTemps == myTemps \cap DOMAIN tempDir

\* C1: in a listen session whose N captured segments have all been processed
\* (every transcription succeeded, none containing a newline), the output
\* file is its content at the start of the session followed by exactly N
\* lines, the i-th being the engine's text for the i-th captured segment.
C1_ListenLinesInCaptureOrder ==
    (/\ mode = "listen"
     /\ pc \in ListenPcs \cup {"done"}
     /\ completed = Len(segs)
     /\ \A i \in 1..Len(segs) : ~HasNewline(TextOf(segs[i])))
    => /\ StartsWith(outFile.data, base.data)
       /\ SplitLines(Appended) = ExpectedLines(Len(segs))
       /\ Len(SplitLines(Appended)) = Len(segs)
       /\ Appended = Flatten(ExpectedLines(Len(segs)))
       /\ (Len(segs) > 0 => outFile.exists)

C1_Witness ==
    /\ mode = "listen" /\ pc = "loop"
    /\ completed = 2 /\ Len(segs) = 2
    /\ TextOf(segs[1]) = <<"a">> /\ TextOf(segs[2]) = <<>>
    /\ outFile.data = base.data \o <<"a", NL, NL>>

ConvertSucceeded == mode = "convert" /\ pc = "done" /\ exitCode = 0

\* C2: a successful convert leaves the output file holding exactly the
\* engine's text for the input, whatever the file held before, and the same
\* content as an earlier successful convert of the same input left.
C2_ConvertOverwritesIdempotent ==
    ConvertSucceeded =>
        /\ inputFile.exists
        /\ outFile = File(engine[inputFile.data].text)
        /\ (prevConvert.exists => outFile = prevConvert)

C2_Witness ==
    /\ ConvertSucceeded
    /\ prevConvert.exists
    /\ base.exists /\ base.data = <<"a">>
    /\ outFile.data = <<"a">>

ConvertInputFailed ==
    /\ mode = "convert" /\ pc = "done"
    /\ raisedAt = "cv_transcribe" /\ exc = "Error"

\* C3: when the transcription of the input fails in convert mode (missing or
\* unreadable input, engine error), the exit status is not zero and the
\* output file is as it was before the run: neither created nor modified.
C3_ConvertFailureLeavesOutput ==
    ConvertInputFailed => exitCode # 0 /\ exitCode # -1 /\ outFile = base

C3_Witness ==
    /\ ConvertInputFailed
    /\ ~inputFile.exists
    /\ base.exists /\ base.data # <<>>

\* C4: once the transcription of a segment has returned or raised and the
\* iteration has ended, the temporary file of that iteration does not exist.
C4_TempDeletedAfterTranscription ==
    (/\ mode = "listen"
     /\ tempName # 0
     /\ calls = Len(segs)
     /\ \/ pc \in {"loop", "capturing"}
        \/ pc = "done" /\ raisedAt = "transcribe" /\ exc = "Error")
    => tempName \notin DOMAIN tempDir

\* C5: at an iteration boundary of the listen loop no temporary file created
\* by the session exists.
C5_NoTempAtBoundary ==
    (mode = "listen" /\ pc = "loop") => LiveTemps = {}

C5_Witness ==
    /\ mode = "listen" /\ pc = "loop"
    /\ completed = 2 /\ myTemps # {}

Stopped == mode = "listen" /\ pc = "handler"

\* C6 as stated: the loop stops only at an iteration boundary, every started
\* iteration having run through append and temporary-file deletion.
C6_StopsOnlyAtBoundary ==
    Stopped =>
        /\ raisedAt = "loop"
        /\ completed = Len(segs)
        /\ LiveTemps = {}

\* C6 amended: an interrupt stops the loop wherever it arrives in the loop,
\* abandoning the step in flight; the finished iterations have their lines
\* appended and their temporary files deleted, the interrupted iteration
\* keeps its temporary file once created and has its line in the output
\* file only if the append had finished.
C6_StopsAnywhereInLoop ==
    Stopped =>
        /\ exc = "KeyboardInterrupt"
        /\ raisedAt \in TryPcs
        /\ Len(segs) = completed
                + (IF raisedAt \in {"loop", "capturing"} THEN 0 ELSE 1)
        /\ outFile = OutAfter(IF raisedAt = "remove" THEN completed + 1
                              ELSE completed)
              \/ (raisedAt = "append" /\ completed = 0 /\ ~base.exists
                  /\ outFile = File(<<>>))
        /\ LiveTemps = (IF raisedAt \in {"write", "transcribe", "open",
                                         "append", "remove"}
                        THEN {tempName} ELSE {})

C6_Witness ==
    /\ Stopped
    /\ raisedAt = "transcribe"
    /\ completed = 1 /\ Len(segs) = 2
    /\ LiveTemps = {tempName}
    /\ outFile = OutAfter(1)

\* C7: an interrupt at an iteration boundary after k completed iterations
\* ends the process with exit status 0 and leaves the output file as it was
\* before the session followed by the k lines of the completed iterations.
C7_InterruptAtBoundaryExitsZero ==
    (/\ mode = "listen" /\ pc = "done"
     /\ raisedAt = "loop" /\ exc = "KeyboardInterrupt")
    => /\ exitCode = 0
       /\ completed = Len(segs)
       /\ outFile = OutAfter(completed)

C7_Witness ==
    /\ mode = "listen" /\ pc = "done"
    /\ raisedAt = "loop" /\ exc = "KeyboardInterrupt"
    /\ completed = 2
    /\ base.exists /\ base.data # <<>>
    /\ exitCode = 0

\* C8: the microphone is opened once per listen session, before the first
\* capture, held throughout the with block, and no longer held when the
\* session has ended, whichever way it ended.
C8_DeviceScoped ==
    /\ acquires <= 1
    /\ (mode = "listen" /\ pc \in WithPcs) => (deviceHeld /\ acquires = 1)
    /\ Len(segs) > 0 => acquires = 1
    /\ pc \in {"idle", "done", "load", "mic"} => ~deviceHeld

C8_Witness ==
    /\ mode = "listen" /\ pc = "done"
    /\ raisedAt = "transcribe" /\ exc = "Error"
    /\ acquires = 1 /\ ~deviceHeld

\* C9: a listen session has at most one segment in processing and at most
\* one temporary file of its own; a capture starts only when every earlier
\* segment has been transcribed, appended and its temporary file deleted.
C9_OneSegmentOneTemp ==
    mode = "listen" =>
        /\ Cardinality(LiveTemps) <= 1
        /\ Len(segs) - completed \in {0, 1}
        /\ pc = "capturing" =>
              /\ completed = Len(segs) /\ calls = Len(segs)
              /\ LiveTemps = {}
              /\ outFile = OutAfter(Len(segs))

C9_Witness ==
    /\ mode = "listen" /\ pc = "capturing"
    /\ completed = 1
    /\ myTemps # {}

SegmentFailed ==
    /\ mode = "listen" /\ pc = "done"
    /\ raisedAt \in {"mktemp", "write", "transcribe"} /\ exc = "Error"

\* C10: when persisting or transcribing a segment fails in listen mode, the
\* session ends with a non-zero exit status, the failed segment is the last
\* one captured, the engine is not called again for it, and the output file
\* holds exactly the lines of the earlier iterations.
C10_SegmentFailureEndsSession ==
    SegmentFailed =>
        /\ exitCode # 0 /\ exitCode # -1
        /\ Len(segs) = completed + 1
        /\ calls = (IF raisedAt = "transcribe" THEN completed + 1
                    ELSE completed)
        /\ outFile = OutAfter(completed)

C10_Witness ==
    /\ SegmentFailed
    /\ raisedAt = "transcribe"
    /\ completed = 1
    /\ outFile.data # <<>>

TypeOK ==
    /\ pc \in RunningPcs \cup {"idle", "done"}
    /\ outFile.exists \in BOOLEAN
    /\ runs \in 0..MaxRuns
====
